---- MODULE Spec2Model ----
(***************************************************************************)
(* easy-route-management: the route tree builder (createRoutePaths and     *)
(* the relative() closure), the path generator (generatePath) and the      *)
(* type-level duplicate-shape check behind defineRoutes.                    *)
(*                                                                         *)
(* A JavaScript string is a sequence of one-character strings, so that     *)
(* concatenation, the two regular-expression replacements and the          *)
(* percent-encoding are computed character by character.                   *)
(***************************************************************************)
EXTENDS Integers, Sequences, FiniteSets, TLC

VARIABLES routesObj, options, built, baseRoute, routes, call, held

vars == <<routesObj, options, built, baseRoute, routes, call, held>>

(***************************************************************************)
(* Bounds of the model.                                                    *)
(***************************************************************************)
\* longest parameter value drawn character by character
MaxValueLen == 1
\* deepest chain of nested subRoutes in a drawn definition
MaxDepth == 3
\* most results of earlier calls the call sites hold on to at one time
MaxHeld == 1

(***************************************************************************)
(* Strings.                                                                *)
(***************************************************************************)
Slash == <<"/">>
Empty == <<>>

\* characters encodeURIComponent leaves alone (ECMA-262 uriUnescaped):
\* letters, digits and the marks - _ . ! ~ * ' ( )
UriAlpha ==
  {"a", "b", "c", "d", "e", "g", "h", "i", "m", "o", "p", "r", "s", "t", "u",
   "I", "P", "x", "y", "0", "1", "2", "3"}
UriMark == {"-", "_", ".", "!", "~", "*", "'", "(", ")"}
\* the characters encodeURI leaves alone, the reserved ones and "#" included
UriUnescaped_OfEncodeURI == UriAlpha \cup UriMark \cup {";", "/", "?", ":", "#"}
UriUnescaped == UriAlpha \cup UriMark
\* ECMA-262 uriReserved ; / ? : @ & = + $ ,
UriReserved == {";", "/", "?", ":", "@", "&", "=", "+", "$", ","}

\* the %XX escape of the one-byte characters the model uses
PercentEscape(c) ==
  CASE c = " " -> <<"%", "2", "0">>
    [] c = "/" -> <<"%", "2", "F">>
    [] c = ":" -> <<"%", "3", "A">>
    [] c = "?" -> <<"%", "3", "F">>
    [] c = "%" -> <<"%", "2", "5">>
    [] c = "#" -> <<"%", "2", "3">>
    [] c = "&" -> <<"%", "2", "6">>
    [] c = "=" -> <<"%", "3", "D">>
    [] c = "+" -> <<"%", "2", "B">>
    [] c = "$" -> <<"%", "2", "4">>
    [] c = "," -> <<"%", "2", "C">>
    [] c = ";" -> <<"%", "3", "B">>
    [] c = "@" -> <<"%", "4", "0">>

\* encodeURIComponent(s) of a string of one-byte characters
RECURSIVE encodeURIComponent(_)
encodeURIComponent(s) ==
  IF s = <<>> THEN <<>>
  ELSE (IF Head(s) \in UriUnescaped THEN <<Head(s)>> ELSE PercentEscape(Head(s)))
       \o encodeURIComponent(Tail(s))

\* generatePath without the second replace
CollapseSlashes_Skipped(s) == s

\* the second replace without the g flag: only the first run is collapsed
CollapseSlashes_FirstRunOnly(s) ==
  LET slashes == {i \in 1..Len(s) : s[i] = "/"}
  IN IF slashes = {} THEN s
     ELSE LET i == CHOOSE t \in slashes : \A u \in slashes : t <= u
              e == CHOOSE t \in i..Len(s) :
                     /\ \A j \in i..t : s[j] = "/"
                     /\ (t = Len(s) \/ s[t + 1] # "/")
          IN SubSeq(s, 1, i) \o SubSeq(s, e + 1, Len(s))

\* s.replace(/\/+/g, "/")
RECURSIVE CollapseSlashes(_)
CollapseSlashes(s) ==
  IF s = <<>> THEN <<>>
  ELSE IF Head(s) = "/" /\ Len(s) > 1 /\ s[2] = "/" THEN CollapseSlashes(Tail(s))
  ELSE <<Head(s)>> \o CollapseSlashes(Tail(s))

(***************************************************************************)
(* JavaScript values that reach generatePath.                              *)
(* An object passed as route carries its `path` property (a value,         *)
(* undefined when the property is missing); an object passed as params     *)
(* carries its own properties as a function from names to values.          *)
(***************************************************************************)
Undefined == [t |-> "undefined"]
Null == [t |-> "null"]
Num(n) == [t |-> "number", n |-> n]
Bool(b) == [t |-> "boolean", b |-> b]
Str(s) == [t |-> "string", s |-> s]
Arr(e) == [t |-> "array", elems |-> e]
Fn == [t |-> "function"]
RouteObject(p) == [t |-> "object", path |-> p]
ParamsObject(m) == [t |-> "object", map |-> m]

\* typeof v
TypeOf(v) ==
  CASE v.t = "undefined" -> "undefined"
    [] v.t = "null" -> "object"
    [] v.t = "number" -> "number"
    [] v.t = "boolean" -> "boolean"
    [] v.t = "string" -> "string"
    [] v.t = "array" -> "object"
    [] v.t = "function" -> "function"
    [] v.t = "object" -> "object"

\* ToBoolean(v), the test of `if (v)` and `!v`
Truthy(v) ==
  CASE v.t = "undefined" -> FALSE
    [] v.t = "null" -> FALSE
    [] v.t = "number" -> v.n # 0
    [] v.t = "boolean" -> v.b
    [] v.t = "string" -> v.s # <<>>
    [] v.t = "array" -> TRUE
    [] v.t = "function" -> TRUE
    [] v.t = "object" -> TRUE

\* route.path of a non-null object (an array has no `path` property)
PathOf(route) == IF route.t = "object" THEN route.path ELSE Undefined

\* index names of an array: "0", "1", "2"
IndexName == [i \in 1..3 |-> <<<<"0">>, <<"1">>, <<"2">>>>[i]]

\* params[key] of an object or array: the own properties (the names the
\* model draws are none of those every object inherits, such as
\* "constructor")
Lookup(params, key) ==
  IF params.t = "object"
    THEN (IF key \in DOMAIN params.map THEN params.map[key] ELSE Undefined)
  ELSE IF params.t = "array"
    THEN (IF \E i \in 1..Len(params.elems) : i <= 3 /\ IndexName[i] = key
            THEN params.elems[CHOOSE i \in 1..Len(params.elems) : i <= 3 /\ IndexName[i] = key]
            ELSE Undefined)
  ELSE Undefined

\* v != null
NotNullish(v) == v.t # "undefined" /\ v.t # "null"

(***************************************************************************)
(* generatePath                                                            *)
(***************************************************************************)
\* the run [^?]+ in place of [^/?]+: a name that runs across "/"
KeyEnd_CrossesSlash(s, i) ==
  LET stops == {j \in i..Len(s) : s[j] = "?"}
  IN IF stops = {} THEN Len(s)
     ELSE (CHOOSE t \in stops : \A u \in stops : t <= u) - 1

\* end of the greedy run [^/?]+ that starts at index i of s (i - 1 if empty)
RECURSIVE KeyEnd(_, _)
KeyEnd(s, i) ==
  IF i <= Len(s) /\ s[i] # "/" /\ s[i] # "?" THEN KeyEnd(s, i + 1) ELSE i - 1

\* the callback before values were encoded: the raw value, or ""
ReplaceToken_Raw(params, key) ==
  IF NotNullish(Lookup(params, key)) THEN Lookup(params, key).s ELSE <<>>

\* a callback that leaves the token of a missing parameter in place
ReplaceToken_KeepsMissing(params, key) ==
  IF NotNullish(Lookup(params, key))
    THEN encodeURIComponent(Lookup(params, key).s)
    ELSE <<":">> \o key

\* the callback of the first replace: the encoded value, or ""
ReplaceToken(params, key) ==
  IF NotNullish(Lookup(params, key))
    THEN encodeURIComponent(Lookup(params, key).s)
    ELSE <<>>

\* path.replace(/:([^/?]+)\??/g, callback), scanning from index i
RECURSIVE ReplaceParamsFrom(_, _, _)
ReplaceParamsFrom(s, i, params) ==
  IF i > Len(s) THEN <<>>
  ELSE IF s[i] = ":" /\ KeyEnd(s, i + 1) >= i + 1
    THEN LET e == KeyEnd(s, i + 1)
             key == SubSeq(s, i + 1, e)
             next == IF e + 1 <= Len(s) /\ s[e + 1] = "?" THEN e + 2 ELSE e + 1
         IN ReplaceToken(params, key) \o ReplaceParamsFrom(s, next, params)
  ELSE <<s[i]>> \o ReplaceParamsFrom(s, i + 1, params)

\* the replace without the g flag: only the first token is replaced
ReplaceParams_FirstOnly(s, params) ==
  LET tokens == {i \in 1..Len(s) : s[i] = ":" /\ KeyEnd(s, i + 1) >= i + 1}
  IN IF tokens = {} THEN s
     ELSE LET i == CHOOSE t \in tokens : \A u \in tokens : t <= u
              e == KeyEnd(s, i + 1)
              next == IF e + 1 <= Len(s) /\ s[e + 1] = "?" THEN e + 2 ELSE e + 1
          IN SubSeq(s, 1, i - 1) \o ReplaceToken(params, SubSeq(s, i + 1, e))
               \o SubSeq(s, next, Len(s))

ReplaceParams(s, params) == ReplaceParamsFrom(s, 1, params)

Threw(e) == [threw |-> TRUE, error |-> e, value |-> <<>>]
Returned(v) == [threw |-> FALSE, error |-> "", value |-> v]

\* the guard of the first throw
InvalidRoute(route) ==
  \/ TypeOf(route) # "object"
  \/ route.t = "null"
  \/ TypeOf(PathOf(route)) # "string"

\* the guard of the second throw
InvalidParams(params) == Truthy(params) /\ TypeOf(params) # "object"

\* generatePath without the early return for omitted params
generatePath_NoPassthrough(route, params) ==
  IF InvalidRoute(route) THEN Threw("Invalid route object")
  ELSE IF InvalidParams(params) THEN Threw("Invalid params")
  ELSE Returned(CollapseSlashes(ReplaceParams(route.path.s, params)))

\* generatePath that only rejects a missing route (`if (!route)`) and takes a
\* path that is not a string as the empty path
generatePath_FalsyRouteOnly(route, params) ==
  IF ~Truthy(route) THEN Threw("Invalid route object")
  ELSE IF InvalidRoute(route) THEN Returned(<<>>)
  ELSE IF InvalidParams(params) THEN Threw("Invalid params")
  ELSE IF ~Truthy(params) THEN Returned(route.path.s)
  ELSE Returned(CollapseSlashes(ReplaceParams(route.path.s, params)))

generatePath(route, params) ==
  IF InvalidRoute(route) THEN Threw("Invalid route object")
  ELSE IF InvalidParams(params) THEN Threw("Invalid params")
  ELSE IF ~Truthy(params) THEN Returned(route.path.s)
  ELSE Returned(CollapseSlashes(ReplaceParams(route.path.s, params)))

(***************************************************************************)
(* Route definitions and route trees.                                      *)
(* A definition is a function from positions to definition nodes; a        *)
(* position is the non-empty sequence of keys that leads from the top      *)
(* level through the subRoutes maps to the node.  A route tree is a        *)
(* function from positions to route nodes; the tree returned by            *)
(* generateRouteParams has its own root at position <<>>.                  *)
(***************************************************************************)
\* the keys of the subRoutes map of the definition node at pos
\* (of the definition itself when pos = <<>>)
SubKeys(obj, pos) ==
  {q[Len(pos) + 1] : q \in {r \in DOMAIN obj : Len(r) = Len(pos) + 1
                                                /\ SubSeq(r, 1, Len(pos)) = pos}}

\* positions of the subtree of obj at pos, relative to pos (<<>> is pos itself)
SubtreeDomain(obj, pos) ==
  {SubSeq(q, Len(pos) + 1, Len(q)) :
     q \in {r \in DOMAIN obj : Len(r) >= Len(pos) /\ SubSeq(r, 1, Len(pos)) = pos}}

\* a node that gets the relative method whatever isRelative says
RouteNode_AlwaysRelative(path, sectionPath, relative) ==
  [path |-> path, sectionPath |-> sectionPath, relative |-> TRUE]

\* a node whose sectionPath is its full path
RouteNode_SectionIsPath(path, sectionPath, relative) ==
  [path |-> path, sectionPath |-> path, relative |-> relative]

\* a route node: `relative` tells whether the node has the relative method
RouteNode(path, sectionPath, relative) ==
  [path |-> path, sectionPath |-> sectionPath, relative |-> relative]

\* a builder that spreads the definition node into the route node, so that
\* acceptedPathValues travels with it
RECURSIVE generateRouteParams_SpreadsDefinition(_, _, _, _)
generateRouteParams_SpreadsDefinition(obj, pos, prevPath, isRelative) ==
  LET innerRoutesObj == obj[pos]
      plain == RouteNode(prevPath \o innerRoutesObj.path, innerRoutesObj.path,
                         ~isRelative)
      node == IF "acceptedPathValues" \in DOMAIN innerRoutesObj
                THEN [path |-> plain.path, sectionPath |-> plain.sectionPath,
                      relative |-> plain.relative,
                      acceptedPathValues |-> innerRoutesObj.acceptedPathValues]
                ELSE plain
      sub(key) == generateRouteParams_SpreadsDefinition(obj, pos \o <<key>>,
                                                       node.path \o Slash, isRelative)
  IN [q \in SubtreeDomain(obj, pos) |->
        IF q = <<>> THEN node ELSE sub(Head(q))[Tail(q)]]

RECURSIVE generateRouteParams(_, _, _, _)
generateRouteParams(obj, pos, prevPath, isRelative) ==
  LET innerRoutesObj == obj[pos]
      node == RouteNode(prevPath \o innerRoutesObj.path, innerRoutesObj.path,
                        ~isRelative)
      sub(key) == generateRouteParams(obj, pos \o <<key>>,
                                      node.path \o Slash, isRelative)
  IN [q \in SubtreeDomain(obj, pos) |->
        IF q = <<>> THEN node ELSE sub(Head(q))[Tail(q)]]

\* const { includeLeadingSlash = true } = options || {}
IncludeLeadingSlash(opts) ==
  IF opts.t = "undefined" THEN TRUE
  ELSE IF opts.includeLeadingSlash.t = "undefined" THEN TRUE
  ELSE opts.includeLeadingSlash.b

\* the builder before the option existed: every path starts with "/"
BaseRoute_AlwaysSlash(opts) == Slash

BaseRoute(opts) == IF IncludeLeadingSlash(opts) THEN Slash ELSE Empty

\* a builder that stops at the top-level routes
createRoutePaths_TopLevelOnly(obj, opts) ==
  [q \in {r \in DOMAIN obj : Len(r) = 1} |->
     generateRouteParams(obj, q, BaseRoute(opts), FALSE)[<<>>]]

createRoutePaths(obj, opts) ==
  [q \in DOMAIN obj |->
     generateRouteParams(obj, <<Head(q)>>, BaseRoute(opts), FALSE)[Tail(q)]]

\* relative() that forgets the ambient setting when no override is given
relative_ForgetsAmbient(obj, pos, base, overrideIncludeLeadingSlash) ==
  generateRouteParams(obj, pos,
    IF overrideIncludeLeadingSlash.t = "undefined" \/ Truthy(overrideIncludeLeadingSlash)
      THEN Slash ELSE Empty, TRUE)

\* relative() before it took an argument: always the ambient setting
relative_IgnoresOverride(obj, pos, base, overrideIncludeLeadingSlash) ==
  generateRouteParams(obj, pos, base, TRUE)

\* routes.<pos>.relative(overrideIncludeLeadingSlash)
relative(obj, pos, base, overrideIncludeLeadingSlash) ==
  IF overrideIncludeLeadingSlash.t # "undefined"
    THEN generateRouteParams(obj, pos,
           IF Truthy(overrideIncludeLeadingSlash) THEN Slash ELSE Empty, TRUE)
    ELSE generateRouteParams(obj, pos, base, TRUE)

(***************************************************************************)
(* The duplicate-shape check of defineRoutes (type level).  A union of     *)
(* string literal types is a set of strings; `never` is the empty set.     *)
(***************************************************************************)
ParamPlaceholder == <<":", "p", "a", "r", "a", "m">>

\* index of the first "/" of s, 0 if there is none
RECURSIVE FirstSlashFrom(_, _)
FirstSlashFrom(s, i) ==
  IF i > Len(s) THEN 0 ELSE IF s[i] = "/" THEN i ELSE FirstSlashFrom(s, i + 1)

FirstSlash(s) == FirstSlashFrom(s, 1)

\* Join<Base, Seg>
Join(Base, Seg) ==
  IF Base = <<>> THEN Seg ELSE IF Seg = <<>> THEN Base ELSE Base \o Slash \o Seg

\* a check that takes every optional segment for a required one
IsOptionalSegment_Never(S) == FALSE

\* S extends `:${string}?`
IsOptionalSegment(S) == Len(S) >= 2 /\ S[1] = ":" /\ S[Len(S)] = "?"

\* a normalisation that keeps the parameter names
NormalizeSegment_KeepsName(S) == S

\* NormalizeSegment<S>
NormalizeSegment(S) == IF Len(S) >= 1 /\ S[1] = ":" THEN ParamPlaceholder ELSE S

\* ExpandOptionals<S, Acc>
RECURSIVE ExpandOptionals(_, _)
ExpandOptionals(S, Acc) ==
  IF FirstSlash(S) # 0
    THEN LET Hd == SubSeq(S, 1, FirstSlash(S) - 1)
             Tl == SubSeq(S, FirstSlash(S) + 1, Len(S))
         IN IF IsOptionalSegment(Hd)
              THEN ExpandOptionals(Tl, Acc)
                     \cup ExpandOptionals(Tl, Join(Acc, ParamPlaceholder))
              ELSE ExpandOptionals(Tl, Join(Acc, NormalizeSegment(Hd)))
  ELSE IF IsOptionalSegment(S)
    THEN {Acc, Join(Acc, ParamPlaceholder)}
  ELSE {Join(Acc, NormalizeSegment(S))}

\* ExpandOptionals<Join<Base, P>> distributed over the union Base
ExpandedBase(Bases, P) == UNION {ExpandOptionals(Join(b, P), <<>>) : b \in Bases}

\* SubtreePathsOfNode<Node, Base> with SubtreePathsOfLevelWithBaseUnion and
\* SubtreePathsOfLevel unfolded; Bases is the union Base
RECURSIVE SubtreePathsOfNode(_, _, _)
SubtreePathsOfNode(obj, pos, Bases) ==
  LET expanded == ExpandedBase(Bases, obj[pos].path)
  IN {Slash \o e : e \in expanded}
       \cup UNION {SubtreePathsOfNode(obj, pos \o <<k>>, expanded) :
                     k \in SubKeys(obj, pos)}

\* DuplicateFullPathsAtLevel<T, Base>: the error messages of the level whose
\* parent is at pos (the top level when pos = <<>>); Extract<A, B> of two
\* unions of string literals is their intersection
DuplicateFullPathsAtLevel(obj, pos, Bases) ==
  UNION {{[under |-> kp[1], and |-> kp[2], path |-> x] :
            x \in SubtreePathsOfNode(obj, pos \o <<kp[1]>>, Bases)
                    \cap SubtreePathsOfNode(obj, pos \o <<kp[2]>>, Bases)} :
           kp \in {y \in SubKeys(obj, pos) \X SubKeys(obj, pos) : y[1] # y[2]}}

\* NoDuplicateFullPathsAtLevel<T, Base>: unknown (TRUE) or never (FALSE)
NoDuplicateFullPathsAtLevel(obj, pos, Bases) ==
  DuplicateFullPathsAtLevel(obj, pos, Bases) = {}

\* a check that validates the level it is given and does not recurse
NoDuplicateFullPathsRecursive_ThisLevelOnly(obj, pos, Bases) ==
  NoDuplicateFullPathsAtLevel(obj, pos, Bases)

\* NoDuplicateFullPathsRecursive<T, Base>: TRUE when no level reduces to never
RECURSIVE NoDuplicateFullPathsRecursive(_, _, _)
NoDuplicateFullPathsRecursive(obj, pos, Bases) ==
  /\ NoDuplicateFullPathsAtLevel(obj, pos, Bases)
  /\ \A K \in SubKeys(obj, pos) :
       SubKeys(obj, pos \o <<K>>) # {} =>
         NoDuplicateFullPathsRecursive(obj, pos \o <<K>>,
                                       ExpandedBase(Bases, obj[pos \o <<K>>].path))

\* the error messages of every level, each with the position of the parent
\* of the level it was raised at: the recursion of
\* NoDuplicateFullPathsRecursive, collecting instead of intersecting
RECURSIVE DuplicateMessages(_, _, _)
DuplicateMessages(obj, pos, Bases) ==
  {[parent |-> pos, under |-> m.under, and |-> m.and, path |-> m.path] :
     m \in DuplicateFullPathsAtLevel(obj, pos, Bases)}
    \cup UNION {DuplicateMessages(obj, pos \o <<K>>,
                                  ExpandedBase(Bases, obj[pos \o <<K>>].path)) :
                  K \in {k \in SubKeys(obj, pos) : SubKeys(obj, pos \o <<k>>) # {}}}

\* the union ExpandOptionals<Join<Base, P>> the recursion reaches the node at
\* pos with: the node's own full paths without their leading "/"
RECURSIVE ExpandedPathsAt(_, _)
ExpandedPathsAt(obj, pos) ==
  IF pos = <<>> THEN {<<>>}
  ELSE ExpandedBase(ExpandedPathsAt(obj, SubSeq(pos, 1, Len(pos) - 1)), obj[pos].path)

\* the first member of SubtreePathsOfNode: the node's own full paths
OwnFullPaths(obj, pos) == {Slash \o e : e \in ExpandedPathsAt(obj, pos)}

\* defineRoutes(t): the value returned, and whether the argument type-checks
\* a defineRoutes that hands back nothing of a definition it rejects
defineRoutes_EmptyWhenRejected(t) ==
  [value |-> IF NoDuplicateFullPathsRecursive(t, <<>>, {<<>>}) THEN t ELSE <<>>,
   accepted |-> NoDuplicateFullPathsRecursive(t, <<>>, {<<>>})]

defineRoutes(t) ==
  [value |-> t, accepted |-> NoDuplicateFullPathsRecursive(t, <<>>, {<<>>})]

\* what the parameter type T & NoDuplicateFullPathsRecursive<T> keeps of the
\* check: NoDuplicateFullPathsAtLevel turns whatever messages
\* DuplicateFullPathsAtLevel computed into never, so the type names the level
\* (the subRoutes map, or the whole argument) and nothing else
RECURSIVE NeverLevels(_, _, _)
NeverLevels(obj, pos, Bases) ==
  (IF NoDuplicateFullPathsAtLevel(obj, pos, Bases) THEN {}
   ELSE {[parent |-> pos, type |-> "never"]})
    \cup UNION {NeverLevels(obj, pos \o <<K>>,
                            ExpandedBase(Bases, obj[pos \o <<K>>].path)) :
                  K \in {k \in SubKeys(obj, pos) : SubKeys(obj, pos \o <<k>>) # {}}}

(***************************************************************************)
(* Inputs.                                                                 *)
(***************************************************************************)
tEmpty == <<>>
tUser == <<"u", "s", "e", "r">>
tId == <<":", "i", "d">>
tIdOpt == <<":", "i", "d", "?">>
tHome == <<"h", "o", "m", "e">>
tHomeId == <<"h", "o", "m", "e", "/", ":", "i", "d">>
tHomeHomeId == <<"h", "o", "m", "e", "/", ":", "h", "o", "m", "e", "I", "d">>
tAOptB == <<"a", "/", ":", "x", "?", "/", "b">>

\* path templates of the definitions the builder is run on
BuilderTemplates == {tEmpty, tUser, tId, tIdOpt}
\* path templates of the definitions the duplicate-shape check is run on
DetectorTemplates == {tEmpty, tHome, tHomeId, tHomeHomeId, tIdOpt, tAOptB}

\* the position at depth d of the chain home.byId.byId...
ChainPos(d) == [i \in 1..d |-> IF i = 1 THEN "home" ELSE "byId"]
Chain(d) == {ChainPos(i) : i \in 1..d}
Siblings == {<<"home">>, <<"public">>}
NestedSiblings == {<<"home">>, <<"home", "byId">>, <<"home", "all">>}
Cousins == {<<"home">>, <<"public">>, <<"home", "byId">>, <<"public", "byId">>}
\* shapes of the definitions the builder is run on
BuilderShapes == {Chain(d) : d \in 1..MaxDepth} \cup {Siblings, NestedSiblings}
\* shapes of the definitions the duplicate-shape check is run on
DetectorShapes == BuilderShapes \cup {Cousins}

DefinitionsOver(shapes, templates) ==
  UNION {[shape -> {[path |-> t] : t \in templates}] : shape \in shapes}

\* the second argument of createRoutePaths
OptionArgs ==
  {Undefined}
    \cup {[t |-> "object", includeLeadingSlash |-> v] :
            v \in {Undefined, Bool(TRUE), Bool(FALSE)}}

\* the argument of relative()
OverrideArgs == {Undefined, Bool(TRUE), Bool(FALSE)}

\* parameter names and values
nId == <<"i", "d">>
nX == <<"x">>
ValueChars == {"a", " ", "/", ":", "?", "%", "!"}
RECURSIVE StringsUpTo(_, _)
StringsUpTo(chars, n) ==
  IF n = 0 THEN {<<>>}
  ELSE StringsUpTo(chars, n - 1)
         \cup {<<c>> \o w : c \in chars,
                            w \in {v \in StringsUpTo(chars, n - 1) : Len(v) = n - 1}}
vSpaceSlash == <<"a", " ", "b", "/", "c">>
ValueStrings == StringsUpTo(ValueChars, MaxValueLen) \cup {vSpaceSlash}

\* values a mapping can hold for a name
ParamValues == {Undefined, Null} \cup {Str(v) : v \in ValueStrings}

\* plain key/value mappings: any value for id, x absent or "a"
Mappings ==
  {ParamsObject(<<>>)}
    \cup {ParamsObject(nId :> v) : v \in ParamValues}
    \cup {ParamsObject((nId :> v) @@ (nX :> Str(<<"a">>))) : v \in ParamValues}
    \cup {ParamsObject(nX :> Str(<<"a">>))}

\* values that are not plain key/value mappings
NonMappings ==
  {Num(0), Num(1), Bool(FALSE), Bool(TRUE), Str(<<>>), Str(<<"a">>),
   Arr(<<>>), Arr(<<Str(<<"a">>)>>), Fn}

ParamArgs == {Undefined, Null} \cup Mappings \cup NonMappings

\* segments a path handed to generatePath is made of
PathSegments ==
  {<<>>, <<"u">>, tId, tIdOpt, <<":", "x", "?">>, <<"a", ":", "i", "d">>,
   <<":", "i", "d", "?", "b">>, <<":", "?">>}
MaxSegments == 2
RECURSIVE PathsOfSegments(_)
PathsOfSegments(n) ==
  IF n = 1 THEN PathSegments
  ELSE PathsOfSegments(n - 1)
         \cup {p \o Slash \o g : p \in PathsOfSegments(n - 1), g \in PathSegments}
pUserId == <<"/", "u", "s", "e", "r", "/", ":", "i", "d">>
pPostsOpt == <<"/", "p", "o", "s", "t", "s", "/", ":", "p", "o", "s", "t", "I", "d", "?">>
pPostComments ==
  <<"/", "p", "o", "s", "t", "/", ":", "p", "o", "s", "t", "I", "d", "?", "/",
    "c", "o", "m", "m", "e", "n", "t", "s">>
PathStrings ==
  PathsOfSegments(MaxSegments)
    \cup {Slash \o p : p \in PathsOfSegments(MaxSegments)}
    \cup {pUserId, pPostsOpt, pPostComments}

\* values handed to generatePath as route
NonRoutes ==
  {Undefined, Null, Num(0), Num(1), Bool(FALSE), Bool(TRUE), Str(<<>>),
   Str(pUserId), Arr(<<>>), Fn,
   RouteObject(Undefined), RouteObject(Null), RouteObject(Num(1)),
   RouteObject(Arr(<<>>))}
RouteArgs == NonRoutes \cup {RouteObject(Str(p)) : p \in PathStrings}

\* a route node as the argument of generatePath
AsRoute(node) == RouteObject(Str(node.path))

(***************************************************************************)
(* The state machine.                                                      *)
(*   routesObj  the definition                                             *)
(*   options    the second argument of createRoutePaths                    *)
(*   built      createRoutePaths has returned                              *)
(*   baseRoute  the baseRoute the relative closures captured               *)
(*   routes     the tree createRoutePaths returned                         *)
(*   call       the last call and what it returned                         *)
(*   held       the earlier calls whose results a call site still holds    *)
(*                                                                         *)
(* Every call of generateRouteParams builds its tree out of object         *)
(* literals, so each tree is a fresh allocation: a tree carries the number *)
(* of its allocation, and a node is the same object as another only when   *)
(* both the allocation and the position agree.  The tree createRoutePaths  *)
(* returns is allocation 0.                                                *)
(***************************************************************************)
NoCall == [op |-> "none"]

InitWith(definitions, opts) ==
  /\ routesObj \in definitions
  /\ options \in opts
  /\ built = FALSE
  /\ baseRoute = <<>>
  /\ routes = <<>>
  /\ call = NoCall
  /\ held = {}

Init == InitWith(DefinitionsOver(BuilderShapes, BuilderTemplates), OptionArgs)

CreateRoutePaths ==
  /\ ~built
  /\ built' = TRUE
  /\ baseRoute' = BaseRoute(options)
  /\ routes' = createRoutePaths(routesObj, options)
  /\ call' = [op |-> "createRoutePaths"]
  /\ UNCHANGED <<routesObj, options, held>>

\* the allocations that are still reachable: the built tree and the trees
\* of the last call and of the held calls
LiveTrees ==
  {0} \cup {c.id : c \in {h \in held \cup {call} : h.op = "relative"}}

\* a relative() that hands out the nodes of the built tree itself
NewObject_Shared(live) == 0

\* const routes = { path, sectionPath }: an allocation that is none of the
\* live ones
NewObject(live) ==
  CHOOSE n \in 0..Cardinality(live) :
    n \notin live /\ \A m \in 0..(n - 1) : m \in live

\* relative(override) that keeps the override as the setting of later calls
Relative_OverrideSticks ==
  /\ built
  /\ \E pos \in DOMAIN routes, override \in OverrideArgs :
       /\ routes[pos].relative
       /\ call' = [op |-> "relative", at |-> pos, arg |-> override,
                   id |-> NewObject(LiveTrees),
                   result |-> relative(routesObj, pos, baseRoute, override)]
       /\ baseRoute' = IF override.t = "undefined" THEN baseRoute
                       ELSE IF Truthy(override) THEN Slash ELSE Empty
  /\ UNCHANGED <<routesObj, options, built, routes, held>>

Relative ==
  /\ built
  /\ \E pos \in DOMAIN routes, override \in OverrideArgs :
       /\ routes[pos].relative
       /\ call' = [op |-> "relative", at |-> pos, arg |-> override,
                   id |-> NewObject(LiveTrees),
                   result |-> relative(routesObj, pos, baseRoute, override)]
  /\ UNCHANGED <<routesObj, options, built, baseRoute, routes, held>>

GeneratePath(route, params) ==
  /\ call' = [op |-> "generatePath", route |-> route, params |-> params,
              outcome |-> generatePath(route, params)]
  /\ UNCHANGED <<routesObj, options, built, baseRoute, routes, held>>

\* parameters handed to generatePath with a node of a tree
TreeParams ==
  {Undefined, ParamsObject(<<>>), ParamsObject(nId :> Str(vSpaceSlash))}

\* generatePath(routes.<pos>, params)
GenerateTreePath ==
  /\ built
  /\ \E pos \in DOMAIN routes, params \in TreeParams :
       GeneratePath(AsRoute(routes[pos]), params)

\* generatePath(routes.<pos>.relative(..).<q>, params)
GenerateViewPath ==
  /\ call.op = "relative"
  /\ \E q \in DOMAIN call.result, params \in TreeParams :
       GeneratePath(AsRoute(call.result[q]), params)

\* defineRoutes(routesObj): the value returned, the messages the check
\* computes, what the parameter type exposes of them, and the own full paths
\* the check derives for the nodes
DefineRoutes ==
  /\ call' = [op |-> "defineRoutes", result |-> defineRoutes(routesObj),
              errors |-> DuplicateMessages(routesObj, <<>>, {<<>>}),
              exposed |-> NeverLevels(routesObj, <<>>, {<<>>}),
              paths |-> [pos \in DOMAIN routesObj |-> OwnFullPaths(routesObj, pos)]]
  /\ UNCHANGED <<routesObj, options, built, baseRoute, routes, held>>

Next ==
  \/ CreateRoutePaths
  \/ Relative
  \/ GenerateTreePath
  \/ GenerateViewPath
  \/ DefineRoutes

Spec == Init /\ [][Next]_vars

(***************************************************************************)
(* generatePath as a pure function of its two arguments.                   *)
(***************************************************************************)
\* the definition of the end-to-end scenario
ScenarioRoutes ==
  (<<"user">> :> [path |-> tUser])
    @@ (<<"user", "settings">> :> [path |-> <<"s", "e", "t">>])
    @@ (<<"user", "settings", "byId">> :> [path |-> tId])

InitGen == InitWith({ScenarioRoutes}, {Undefined})

\* one call of generatePath(route, params)
GenerateArgPath ==
  /\ call.op = "none"
  /\ \E route \in RouteArgs, params \in ParamArgs : GeneratePath(route, params)

NextGen == GenerateArgPath

SpecGen == InitGen /\ [][NextGen]_vars

(***************************************************************************)
(* Definitions whose nodes declare acceptedPathValues for the parameter id.*)
(***************************************************************************)
\* acceptedPathValues: { id: ["a"] }
AcceptedValues == nId :> {<<"a">>}

\* every way of declaring it on some nodes of a chain of two
AcceptedDefinitions ==
  {[pos \in DOMAIN d |->
      IF pos \in D
        THEN [path |-> d[pos].path, acceptedPathValues |-> AcceptedValues]
        ELSE d[pos]] :
     d \in DefinitionsOver({Chain(2)}, {tUser, tId}), D \in SUBSET Chain(2)}

InitAccepted == InitWith(AcceptedDefinitions, OptionArgs)

SpecAccepted == InitAccepted /\ [][Next]_vars

(***************************************************************************)
(* A caller that changes the definition object after the tree was built.   *)
(* The relative closure of a node holds the definition node itself         *)
(* (innerRoutesObj), not a copy, and reads its path and subRoutes when it   *)
(* is called.  The sub-routes added are under the key "all", which no      *)
(* built node has, and only those are removed again, so the node a closure *)
(* holds is always the node at its position.                               *)
(***************************************************************************)
EditTemplates == {tUser, tId}

InitEdit == InitWith(DefinitionsOver({Chain(2)}, EditTemplates), {Undefined})

\* routesObj.<pos>.path = template
EditPath ==
  /\ built
  /\ \E pos \in DOMAIN routesObj, template \in EditTemplates :
       /\ routesObj[pos].path # template
       /\ routesObj' = [routesObj EXCEPT ![pos] = [path |-> template]]
  /\ UNCHANGED <<options, built, baseRoute, routes, call, held>>

\* routesObj.<parent>.subRoutes.all = { path: template }
AddSubRoute ==
  /\ built
  /\ \E parent \in DOMAIN routes, template \in EditTemplates :
       /\ parent \in DOMAIN routesObj
       /\ parent \o <<"all">> \notin DOMAIN routesObj
       /\ routesObj' = routesObj @@ (parent \o <<"all">> :> [path |-> template])
  /\ UNCHANGED <<options, built, baseRoute, routes, call, held>>

\* delete routesObj.<parent>.subRoutes.all
RemoveSubRoute ==
  /\ built
  /\ \E pos \in DOMAIN routesObj \ DOMAIN routes :
       /\ SubKeys(routesObj, pos) = {}
       /\ routesObj' = [q \in DOMAIN routesObj \ {pos} |-> routesObj[q]]
  /\ UNCHANGED <<options, built, baseRoute, routes, call, held>>

NextEdit ==
  \/ CreateRoutePaths
  \/ Relative
  \/ EditPath
  \/ AddSubRoute
  \/ RemoveSubRoute

SpecEdit == InitEdit /\ [][NextEdit]_vars

(***************************************************************************)
(* Several call sites that share one built tree: a site calls relative()   *)
(* or generatePath() and may hold on to what the call returned while the   *)
(* other sites go on calling.  JavaScript runs each call to completion, so *)
(* the calls interleave as whole steps.                                    *)
(***************************************************************************)
\* the definition the sites share
SharedRoutes ==
  (<<"user">> :> [path |-> tUser]) @@ (<<"user", "byId">> :> [path |-> tId])

InitSites == InitWith({SharedRoutes}, {Undefined})

\* const rel = routes.<pos>.relative(..): the site keeps the last result
Keep ==
  /\ call.op \in {"relative", "generatePath"}
  /\ call \notin held
  /\ Cardinality(held) < MaxHeld
  /\ held' = held \cup {call}
  /\ UNCHANGED <<routesObj, options, built, baseRoute, routes, call>>

NextSites ==
  \/ CreateRoutePaths
  \/ Relative
  \/ GenerateTreePath
  \/ GenerateViewPath
  \/ Keep

SpecSites == InitSites /\ [][NextSites]_vars

(***************************************************************************)
(* defineRoutes over definitions whose templates differ in parameter names *)
(***************************************************************************)
InitDefine == InitWith(DefinitionsOver(DetectorShapes, DetectorTemplates), {Undefined})

NextDefine == DefineRoutes

SpecDefine == InitDefine /\ [][NextDefine]_vars

(***************************************************************************)
(* Properties of the builder.                                              *)
(***************************************************************************)
\* list.join("/")
RECURSIVE JoinWithSlash(_)
JoinWithSlash(list) ==
  IF list = <<>> THEN <<>>
  ELSE IF Len(list) = 1 THEN list[1]
  ELSE list[1] \o Slash \o JoinWithSlash(Tail(list))

\* the templates of the definition nodes from depth `from` down to pos
TemplatesAlong(obj, pos, from) ==
  [i \in 1..(Len(pos) - from + 1) |-> obj[SubSeq(pos, 1, from + i - 1)].path]

\* the leading-slash setting the caller asked for: true unless the option is
\* given as false
AmbientLeadingSlash ==
  IF options.t = "object" /\ options.includeLeadingSlash.t = "boolean"
    THEN options.includeLeadingSlash.b
    ELSE TRUE

LeadingSlash(on) == IF on THEN <<"/">> ELSE <<>>

BeginsWithSlash(s) == Len(s) >= 1 /\ s[1] = "/"

\* C1: every node X of the tree createRoutePaths returns has as path the
\* templates of the nodes from the root down to X joined by "/", behind a
\* single "/" exactly when includeLeadingSlash is true (the default when the
\* options or the option are omitted).
C1_PathIsJoinedTemplates ==
  built =>
    /\ DOMAIN routes = DOMAIN routesObj
    /\ \A X \in DOMAIN routes :
         routes[X].path =
           LeadingSlash(AmbientLeadingSlash)
             \o JoinWithSlash(TemplatesAlong(routesObj, X, 1))

\* a tree built without the leading slash that has a node three levels down
C1_Witness ==
  /\ built
  /\ ~AmbientLeadingSlash
  /\ \E X \in DOMAIN routes :
       /\ Len(X) = 3
       /\ routes[X].path = tUser \o Slash \o tUser \o Slash \o tId

\* the definition whose only top-level route is the subtree of obj at pos
Rerooted(obj, pos) ==
  [q \in {<<"root">> \o r : r \in SubtreeDomain(obj, pos)} |-> obj[pos \o Tail(q)]]

\* C2: X.relative() without an argument returns a tree whose root path is
\* X's own template behind the ambient leading slash, and whose every
\* descendant has the "/"-join of the templates from X down to it; the
\* ancestors of X have no influence: the paths are those of the tree built
\* from X's subtree alone.
C2_RelativeDropsAncestors ==
  (call.op = "relative" /\ call.arg = Undefined) =>
    /\ DOMAIN call.result = SubtreeDomain(routesObj, call.at)
    /\ call.result[<<>>].path =
         LeadingSlash(AmbientLeadingSlash) \o routesObj[call.at].path
    /\ \A q \in DOMAIN call.result :
         /\ call.result[q].path =
              LeadingSlash(AmbientLeadingSlash)
                \o JoinWithSlash(TemplatesAlong(routesObj, call.at \o q, Len(call.at)))
         /\ call.result[q].path =
              createRoutePaths(Rerooted(routesObj, call.at), options)[<<"root">> \o q].path

\* relative() called on a node below the top level that has a descendant,
\* in a tree built without the leading slash
C2_Witness ==
  /\ call.op = "relative"
  /\ call.arg = Undefined
  /\ Len(call.at) = 2
  /\ ~AmbientLeadingSlash
  /\ routesObj[<<Head(call.at)>>].path = tUser
  /\ \E q \in DOMAIN call.result :
       /\ q # <<>>
       /\ call.result[q].path = tUser \o Slash \o tId

\* C3: under either ambient setting, every path of the tree X.relative(true)
\* returns begins with "/" and no path of the tree X.relative(false) returns
\* begins with "/".
C3_OverrideDecidesLeadingSlash ==
  (call.op = "relative" /\ call.arg # Undefined) =>
    \A q \in DOMAIN call.result :
      BeginsWithSlash(call.result[q].path) <=> call.arg.b

(***************************************************************************)
(* Properties of generatePath.                                             *)
(***************************************************************************)
\* the call is generatePath(route, params) with a route that has a string path
GeneratedFrom(route, params) ==
  /\ call.op = "generatePath"
  /\ call.route = route
  /\ call.params = params

HasStringPath(route) == route.t = "object" /\ route.path.t = "string"

\* s.split("/")
RECURSIVE Split(_)
Split(s) ==
  IF FirstSlash(s) = 0 THEN <<s>>
  ELSE <<SubSeq(s, 1, FirstSlash(s) - 1)>>
         \o Split(SubSeq(s, FirstSlash(s) + 1, Len(s)))

Chars(s) == {s[i] : i \in 1..Len(s)}

CountSlashes(s) == Cardinality({i \in 1..Len(s) : s[i] = "/"})

HasSlashRun(s) == \E i \in 1..(Len(s) - 1) : s[i] = "/" /\ s[i + 1] = "/"

\* s without every "/" that follows a "/"
WithoutRepeatedSlashes(s) ==
  LET kept == {i \in 1..Len(s) : ~(s[i] = "/" /\ i > 1 /\ s[i - 1] = "/")}
      nth(k) == CHOOSE i \in kept : Cardinality({j \in kept : j < i}) = k - 1
  IN [k \in 1..Cardinality(kept) |-> s[nth(k)]]

\* a segment that is one parameter token: ":" and a name, with or without "?"
SegmentName(g) ==
  IF g[Len(g)] = "?" THEN SubSeq(g, 2, Len(g) - 1) ELSE SubSeq(g, 2, Len(g))
IsParamSegment(g) ==
  /\ Len(g) >= 2
  /\ g[1] = ":"
  /\ SegmentName(g) # <<>>
  /\ "?" \notin Chars(SegmentName(g))
IsLiteralSegment(g) == ":" \notin Chars(g)
\* every segment of the path is a literal or one parameter token
SegmentWise(path) ==
  \A i \in 1..Len(Split(path)) :
    IsParamSegment(Split(path)[i]) \/ IsLiteralSegment(Split(path)[i])

\* the mapping has no value, or a null value, for the name
Missing(params, name) ==
  \/ name \notin DOMAIN params.map
  \/ params.map[name].t \in {"undefined", "null"}

\* C4: a non-null value of the mapping is inserted percent-encoded: no
\* reserved URI character of the value, "/" included, reaches the result, so
\* the result has no more "/" than node.path; "/user/:id" with id "a b/c"
\* gives "/user/a%20b%2Fc".
C4_ValuesArePercentEncoded ==
  (call.op = "generatePath" /\ HasStringPath(call.route) /\ call.params \in Mappings) =>
    /\ ~call.outcome.threw
    /\ CountSlashes(call.outcome.value) <= CountSlashes(call.route.path.s)
    /\ (call.route.path.s = pUserId /\ ~Missing(call.params, nId)) =>
         LET inserted == SubSeq(call.outcome.value, 7, Len(call.outcome.value))
         IN /\ SubSeq(call.outcome.value, 1, 6) = SubSeq(pUserId, 1, 6)
            /\ Chars(inserted) \cap (UriReserved \cup {" ", "%"}) \subseteq {"%"}
            /\ (inserted = <<>>) <=> (call.params.map[nId].s = <<>>)
            /\ Len(inserted) >= Len(call.params.map[nId].s)
    /\ (call.route.path.s = pUserId /\ call.params = ParamsObject(nId :> Str(vSpaceSlash))) =>
         call.outcome.value =
           SubSeq(pUserId, 1, 6) \o <<"a", "%", "2", "0", "b", "%", "2", "F", "c">>

\* generatePath({path: "/user/:id"}, {id: "a b/c"}) returned
C4_Witness ==
  /\ GeneratedFrom(RouteObject(Str(pUserId)), ParamsObject(nId :> Str(vSpaceSlash)))
  /\ ~call.outcome.threw
  /\ Len(call.outcome.value) = 15

C6_MissingParamsBecomeEmpty ==
  (call.op = "generatePath" /\ HasStringPath(call.route) /\ call.params \in Mappings) =>
    /\ ~call.outcome.threw
    /\ SegmentWise(call.route.path.s) =>
         call.outcome.value =
           WithoutRepeatedSlashes(JoinWithSlash(
             [i \in 1..Len(Split(call.route.path.s)) |->
                LET g == Split(call.route.path.s)[i]
                IN IF ~IsParamSegment(g) THEN g
                   ELSE IF Missing(call.params, SegmentName(g)) THEN <<>>
                   ELSE encodeURIComponent(call.params.map[SegmentName(g)].s)]))

\* a required and an optional token, one missing and one null
C6_Witness ==
  /\ GeneratedFrom(RouteObject(Str(Slash \o tId \o Slash \o <<":", "x", "?">>)),
                   ParamsObject(nId :> Null))
  /\ call.outcome = Returned(Slash)

\* C7: with params undefined or null generatePath returns node.path as it
\* is, tokens and slash runs untouched.
C7_OmittedParamsReturnPath ==
  (call.op = "generatePath" /\ HasStringPath(call.route)
     /\ call.params \in {Undefined, Null}) =>
    call.outcome = Returned(call.route.path.s)

\* a path with a slash run and an optional token, params null
C7_Witness ==
  /\ GeneratedFrom(RouteObject(Str(Slash \o Slash \o tIdOpt)), Null)
  /\ call.outcome = Returned(<<"/", "/", ":", "i", "d", "?">>)

\* C8: generatePath raises the invalid-route error, and returns no string,
\* whenever node is not an object (null and primitives included) or node.path
\* is not a string, whatever params is.
C8_InvalidRouteRaises ==
  (call.op = "generatePath"
     /\ \/ call.route.t \in {"undefined", "null", "number", "boolean", "string", "function"}
        \/ call.route.t = "array"
        \/ call.route.t = "object" /\ call.route.path.t # "string") =>
    call.outcome = Threw("Invalid route object")

\* an object whose path is a number, handed over with a valid mapping
C8_Witness ==
  /\ GeneratedFrom(RouteObject(Num(1)), ParamsObject(nId :> Str(<<"a">>)))
  /\ call.outcome.threw

\* C9: generatePath raises the invalid-params error whenever params is
\* neither undefined nor null and is not a plain key/value mapping: numbers,
\* booleans, strings (0, false and "" too) and arrays.
C9_NonMappingParamsRaise ==
  (call.op = "generatePath" /\ HasStringPath(call.route)
     /\ call.params \in NonMappings) =>
    call.outcome = Threw("Invalid params")

(***************************************************************************)
(* Properties of the duplicate-shape check.                                *)
(***************************************************************************)
RECURSIVE Concat(_)
Concat(lists) == IF lists = <<>> THEN <<>> ELSE Head(lists) \o Concat(Tail(lists))

NonEmptySegments(t) == SelectSeq(Split(t), LAMBDA g : g # <<>>)

\* the segments of the joined path of the node at pos: those of every
\* template from the root down to the node
FullSegments(obj, pos) ==
  Concat([i \in 1..Len(pos) |-> NonEmptySegments(obj[SubSeq(pos, 1, i)].path)])

\* the normalized paths of a list of segments: a parameter segment becomes
\* ":param", an optional one is kept as ":param" or dropped, `keep` being
\* the set of the indices kept
NormalizedVariants(segs) ==
  LET optional == {i \in 1..Len(segs) :
                     segs[i][1] = ":" /\ segs[i][Len(segs[i])] = "?" /\ Len(segs[i]) >= 2}
      variant(keep) ==
        LET idx == (1..Len(segs)) \ (optional \ keep)
            nth(k) == CHOOSE i \in idx : Cardinality({j \in idx : j < i}) = k - 1
        IN [k \in 1..Cardinality(idx) |->
              IF segs[nth(k)][1] = ":" THEN ParamPlaceholder ELSE segs[nth(k)]]
  IN {Slash \o JoinWithSlash(variant(keep)) : keep \in SUBSET optional}

\* the normalized, optional-expanded full paths of the nodes of the subtree
\* of the node at pos
SubtreeShapes(obj, pos) ==
  UNION {NormalizedVariants(FullSegments(obj, pos \o q)) : q \in SubtreeDomain(obj, pos)}

\* the positions of the parents of a level: <<>> for the top level
Parents(obj) == {<<>>} \cup {pos \in DOMAIN obj : SubKeys(obj, pos) # {}}

\* C10: the check flags two siblings (same parent, different keys) exactly
\* when a normalized, optional-expanded full path of a node of one sibling's
\* subtree equals one of a node of the other's, every parameter segment
\* being ":param" whatever its name; each message names such a shared path,
\* and the siblings "home/:id" and "home/:homeId" are flagged on
\* "/home/:param".
C10_SiblingsFlaggedIffShapesMeet ==
  call.op = "defineRoutes" =>
    /\ \A parent \in Parents(routesObj) :
         \A K \in SubKeys(routesObj, parent) :
         \A P \in SubKeys(routesObj, parent) \ {K} :
           {m.path : m \in {e \in call.errors :
                              e.parent = parent /\ e.under = K /\ e.and = P}}
             = SubtreeShapes(routesObj, parent \o <<K>>)
                 \cap SubtreeShapes(routesObj, parent \o <<P>>)
    /\ \A m \in call.errors :
         m.parent \in Parents(routesObj)
           /\ {m.under, m.and} \subseteq SubKeys(routesObj, m.parent)
           /\ m.under # m.and
    /\ (routesObj[<<"home">>].path = tHomeId /\ <<"public">> \in DOMAIN routesObj
          /\ routesObj[<<"public">>].path = tHomeHomeId) =>
         [parent |-> <<>>, under |-> "home", and |-> "public",
          path |-> Slash \o tHome \o Slash \o ParamPlaceholder] \in call.errors

\* defineRoutes on the siblings "home/:id" and "home/:homeId"
C10_Witness ==
  /\ call.op = "defineRoutes"
  /\ DOMAIN routesObj = Siblings
  /\ routesObj[<<"home">>].path = tHomeId
  /\ routesObj[<<"public">>].path = tHomeHomeId
  /\ ~call.result.accepted
  /\ \E m \in call.errors : m.path = Slash \o tHome \o Slash \o ParamPlaceholder

\* two siblings of the level below parent share a normalized full path
SiblingsConflict(obj, parent) ==
  \E K \in SubKeys(obj, parent) :
    \E P \in SubKeys(obj, parent) \ {K} :
      SubtreeShapes(obj, parent \o <<K>>) \cap SubtreeShapes(obj, parent \o <<P>>) # {}

\* C11: the check is applied to the siblings of every subRoutes map at every
\* depth, with the parent's joined path as base: the definition is rejected
\* exactly when some level, the root level or a nested one, has two
\* conflicting siblings.
C11_EveryLevelIsChecked ==
  call.op = "defineRoutes" =>
    (~call.result.accepted <=>
       \E parent \in Parents(routesObj) : SiblingsConflict(routesObj, parent))

\* a definition rejected for two siblings below the top level only
C11_Witness ==
  /\ call.op = "defineRoutes"
  /\ DOMAIN routesObj = NestedSiblings
  /\ routesObj[<<"home">>].path = tIdOpt
  /\ routesObj[<<"home", "byId">>].path = tHomeId
  /\ routesObj[<<"home", "all">>].path = tHomeHomeId
  /\ ~SiblingsConflict(routesObj, <<>>)
  /\ ~call.result.accepted
  /\ \E m \in call.errors :
       m.parent = <<"home">> /\ m.path = Slash \o ParamPlaceholder \o Slash \o tHome
                                           \o Slash \o ParamPlaceholder

\* the normalized, optional-expanded full paths of the node at pos
NodeShapes(obj, pos) == NormalizedVariants(FullSegments(obj, pos))

\* C12: a definition defineRoutes accepts has no two distinct routes, at any
\* two positions of the tree (siblings, cousins, or a route and its own
\* ancestor or descendant), whose normalized and optional-expanded full
\* paths share a pattern.
C12_AcceptedHasNoSharedShape ==
  (call.op = "defineRoutes" /\ call.result.accepted) =>
    \A p \in DOMAIN routesObj :
      \A q \in DOMAIN routesObj \ {p} :
        NodeShapes(routesObj, p) \cap NodeShapes(routesObj, q) = {}

\* C13: the normalized full paths of a node are the expansions of every
\* optional parameter segment of its joined path, those of its ancestors
\* included, into present (":param") and absent, independently of each
\* other: one path for each of the 2^k choices; "a/:x?/b" yields exactly
\* "/a/b" and "/a/:param/b".
C13_OptionalsExpandIndependently ==
  call.op = "defineRoutes" =>
    \A pos \in DOMAIN routesObj :
      /\ call.paths[pos] = NodeShapes(routesObj, pos)
      /\ (Len(pos) = 1 /\ routesObj[pos].path = tAOptB) =>
           call.paths[pos] =
             {<<"/", "a", "/", "b">>,
              <<"/", "a", "/">> \o ParamPlaceholder \o <<"/", "b">>}

\* a node two levels down whose joined path "a/:x?/b/a/:x?/b" has one
\* optional segment of its own and one inherited: four full paths
C13_Witness ==
  /\ call.op = "defineRoutes"
  /\ <<"home", "byId">> \in DOMAIN routesObj
  /\ routesObj[<<"home">>].path = tAOptB
  /\ routesObj[<<"home", "byId">>].path = tAOptB
  /\ Cardinality(call.paths[<<"home", "byId">>]) = 4
  /\ <<"/", "a", "/", "b", "/", "a", "/">> \o ParamPlaceholder \o <<"/", "b">>
       \in call.paths[<<"home", "byId">>]

(***************************************************************************)
(* Further properties of the builder and of the trees it returns.          *)
(***************************************************************************)
\* the parent's path and the template joined with one "/" between them
\* unless one of them is empty
JoinParts(parentPath, template) ==
  IF parentPath = <<>> THEN template
  ELSE IF template = <<>> THEN parentPath
  ELSE parentPath \o Slash \o template

ParentOf(pos) == SubSeq(pos, 1, Len(pos) - 1)

\* C14: the builder joins the parent's path and the template with exactly
\* one "/" between two non-empty parts, and when either part is empty the
\* result is the other part unchanged: a node whose template is "" has its
\* parent's path, and without the leading slash the child of a root whose
\* template is "" gets no leading "/".
C14_JoinSkipsEmptyParts ==
  built =>
    \A X \in DOMAIN routes :
      Len(X) >= 2 =>
        routes[X].path = JoinParts(routes[ParentOf(X)].path, routesObj[X].path)

\* C15: every node of the tree createRoutePaths returns, the leaves
\* included, has the relative method, and no node of a tree relative()
\* returns has it.
C15_OnlyBuiltNodesHaveRelative ==
  /\ built => \A X \in DOMAIN routes : routes[X].relative
  /\ call.op = "relative" => \A q \in DOMAIN call.result : ~call.result[q].relative

\* relative() called on a top-level node of a chain of three: the built
\* tree has a leaf, the view has a root and descendants
C15_Witness ==
  /\ call.op = "relative"
  /\ Len(call.at) = 1
  /\ \E q \in DOMAIN call.result : Len(q) = 2 /\ ~call.result[q].relative
  /\ \E X \in DOMAIN routes : Len(X) = 3 /\ routes[X].relative

\* the relative() calls among the last call and the held ones
RelativeCalls == {c \in held \cup {call} : c.op = "relative"}

\* C16: relative() calls leave the built tree and the definition as they
\* are and accumulate nothing; the tree a call returns is a new allocation,
\* which shares no node with the built tree or with the tree of another
\* call, and two calls with the same argument on the same node return
\* structurally equal trees.
C16_RelativeIsFreshAndPure ==
  /\ [](\A c \in RelativeCalls :
          /\ c.id # 0
          /\ \A d \in RelativeCalls \ {c} :
               /\ d.id # c.id
               /\ (d.at = c.at /\ d.arg = c.arg) => d.result = c.result)
  /\ [][(call'.op = "relative" /\ call' # call) =>
          UNCHANGED <<routesObj, options, built, baseRoute, routes, held>>]_vars

\* a held result and a second call with the same argument on the same node:
\* two allocations, equal trees of two nodes
C16_Witness ==
  /\ call.op = "relative"
  /\ \E c \in held :
       /\ c.op = "relative"
       /\ c.at = call.at
       /\ c.arg = call.arg
       /\ c.id # call.id
       /\ c.result = call.result
       /\ Cardinality(DOMAIN c.result) = 2

\* what the call returns when it is the only call on a freshly built tree
AloneResult(c) ==
  IF c.op = "relative"
    THEN relative(routesObj, c.at, BaseRoute(options), c.arg)
    ELSE generatePath(c.route, c.params)

\* C17: however the relative() and generatePath() calls of several call
\* sites on one shared tree interleave, every call returns what it returns
\* when run alone, and no call writes to the shared tree, to the definition
\* or to a result another call returned.
C17_InterleavedCallsAreIndependent ==
  /\ [](\A c \in held \cup {call} :
          /\ c.op = "relative" => c.result = AloneResult(c)
          /\ c.op = "generatePath" => c.outcome = AloneResult(c))
  /\ [][built =>
          /\ routes' = routes
          /\ routesObj' = routesObj
          /\ held \subseteq held']_vars

\* one site holds the result of relative(false) while another calls
\* relative() on the same node and gets the path with the ambient slash
C17_Witness ==
  /\ call.op = "relative"
  /\ call.arg = Undefined
  /\ call.result[<<>>].path = Slash \o tUser
  /\ \E c \in held :
       /\ c.op = "relative"
       /\ c.at = call.at
       /\ c.arg = Bool(FALSE)
       /\ c.result[<<>>].path = tUser

\* how many segments of the path are the token g
CountSegments(path, g) ==
  Cardinality({i \in 1..Len(Split(path)) : Split(path)[i] = g})

\* C18: a parameter name that occurs twice in node.path, as in
\* "/post/:id/:id", is not special: the builder keeps both tokens and
\* generatePath replaces every occurrence with the same encoded value.
C18_ReusedNameReplacedEverywhere ==
  /\ built =>
       \A X \in DOMAIN routes :
         CountSegments(routes[X].path, tId) =
           Cardinality({i \in 1..Len(X) : routesObj[SubSeq(X, 1, i)].path = tId})
  /\ (/\ call.op = "generatePath"
      /\ HasStringPath(call.route)
      /\ call.params = ParamsObject(nId :> Str(vSpaceSlash))
      /\ ~HasSlashRun(call.route.path.s)) =>
       /\ ~call.outcome.threw
       /\ Len(Split(call.outcome.value)) = Len(Split(call.route.path.s))
       /\ \A i \in 1..Len(Split(call.route.path.s)) :
            Split(call.outcome.value)[i] =
              IF Split(call.route.path.s)[i] \in {tId, tIdOpt}
                THEN encodeURIComponent(vSpaceSlash)
                ELSE Split(call.route.path.s)[i]

\* generatePath on the node whose path is "/user/:id/:id"
C18_Witness ==
  /\ GeneratedFrom(RouteObject(Str(Slash \o tUser \o Slash \o tId \o Slash \o tId)),
                   ParamsObject(nId :> Str(vSpaceSlash)))
  /\ call.outcome =
       Returned(Slash \o tUser \o Slash \o encodeURIComponent(vSpaceSlash)
                  \o Slash \o encodeURIComponent(vSpaceSlash))
  /\ \E X \in DOMAIN routes : AsRoute(routes[X]) = call.route

ChildKeys(tree, pos) ==
  {q[Len(pos) + 1] : q \in {r \in DOMAIN tree : Len(r) = Len(pos) + 1
                                                 /\ SubSeq(r, 1, Len(pos)) = pos}}

\* C20: the built tree mirrors the definition: its top-level keys are the
\* keys of the definition and the child keys of every node are the keys of
\* the node's subRoutes, at every depth; a tree relative() returns has at
\* every position the child keys of the definition subtree it was made of.
C20_TreeMirrorsDefinition ==
  /\ built =>
       /\ DOMAIN routes = DOMAIN routesObj
       /\ \A pos \in {<<>>} \cup DOMAIN routesObj :
            ChildKeys(routes, pos) = SubKeys(routesObj, pos)
  /\ call.op = "relative" =>
       \A q \in DOMAIN call.result :
         ChildKeys(call.result, q) = SubKeys(routesObj, call.at \o q)

\* a built tree with two children below one node, and a view of that node
C20_Witness ==
  /\ call.op = "relative"
  /\ call.at = <<"home">>
  /\ ChildKeys(routes, <<"home">>) = {"byId", "all"}
  /\ ChildKeys(call.result, <<>>) = {"byId", "all"}
  /\ ChildKeys(call.result, <<"all">>) = {}

(***************************************************************************)
(* defineRoutes next to the builder.                                       *)
(***************************************************************************)
\* C21: defineRoutes returns the very definition it was given and does not
\* touch it, and the tree createRoutePaths builds is the same whether or
\* not the definition went through defineRoutes, accepted or rejected.
C21_DefineRoutesIsIdentity ==
  /\ [](call.op = "defineRoutes" =>
          /\ call.result.value = routesObj
          /\ built => createRoutePaths(call.result.value, options) = routes)
  /\ [][call'.op = "defineRoutes" =>
          UNCHANGED <<routesObj, options, built, baseRoute, routes, held>>]_vars

\* a rejected definition that was built into a tree of two routes
C21_Witness ==
  /\ call.op = "defineRoutes"
  /\ ~call.result.accepted
  /\ built
  /\ DOMAIN routes = Siblings
  /\ routes[<<"home">>].path = Slash \o tId
  /\ routes[<<"public">>].path = Slash \o tIdOpt

\* C22: when the check rejects a definition, what defineRoutes exposes to
\* the caller identifies the two conflicting sibling keys and the
\* normalized path pattern they share.
C22_RejectionNamesKeysAndPattern ==
  (call.op = "defineRoutes" /\ ~call.result.accepted) =>
    \E m \in call.errors : m \in call.exposed

(***************************************************************************)
(* Further properties of generatePath.                                     *)
(***************************************************************************)
\* segment i of the path is an optional parameter the mapping has no value
\* for, with a part of the route before it and a part after it
OmittedInside(path, params, i) ==
  /\ i \in 2..(Len(Split(path)) - 1)
  /\ IsParamSegment(Split(path)[i])
  /\ Split(path)[i][Len(Split(path)[i])] = "?"
  /\ Missing(params, SegmentName(Split(path)[i]))

\* the path without its segment i
WithoutSegment(path, i) ==
  JoinWithSlash([k \in 1..(Len(Split(path)) - 1) |->
                   IF k < i THEN Split(path)[k] ELSE Split(path)[k + 1]])

WithoutAccepted(obj) == [pos \in DOMAIN obj |-> [path |-> obj[pos].path]]

\* C24: acceptedPathValues has no runtime effect: createRoutePaths builds
\* the same tree whatever acceptedPathValues the definition declares, and
\* generatePath substitutes a value outside the declared set like any other
\* value, without raising an error.
C24_AcceptedValuesAreIgnored ==
  /\ built => routes = createRoutePaths(WithoutAccepted(routesObj), options)
  /\ call.op = "relative" =>
       call.result = relative(WithoutAccepted(routesObj), call.at, baseRoute, call.arg)
  /\ (/\ call.op = "generatePath"
      /\ call.params = ParamsObject(nId :> Str(vSpaceSlash))
      /\ vSpaceSlash \notin AcceptedValues[nId]) =>
       /\ ~call.outcome.threw
       /\ call.outcome.value =
            JoinWithSlash([i \in 1..Len(Split(call.route.path.s)) |->
              IF Split(call.route.path.s)[i] = tId
                THEN encodeURIComponent(vSpaceSlash)
                ELSE Split(call.route.path.s)[i]])

\* both nodes declare that id is "a", and generatePath is given "a b/c" for
\* the node whose path is "/:id/:id"
C24_Witness ==
  /\ \A pos \in DOMAIN routesObj : "acceptedPathValues" \in DOMAIN routesObj[pos]
  /\ GeneratedFrom(RouteObject(Str(Slash \o tId \o Slash \o tId)),
                   ParamsObject(nId :> Str(vSpaceSlash)))
  /\ call.route = AsRoute(routes[<<"home", "byId">>])
  /\ call.outcome = Returned(Slash \o encodeURIComponent(vSpaceSlash)
                               \o Slash \o encodeURIComponent(vSpaceSlash))

\* C25: for a node with a non-empty path and any mapping, the string
\* generatePath returns begins with "/" exactly when node.path does:
\* substitution and collapsing neither add nor remove a leading slash.
C25_LeadingSlashIsPreserved ==
  (/\ call.op = "generatePath"
   /\ HasStringPath(call.route)
   /\ call.route.path.s # <<>>
   /\ call.params \in Mappings) =>
    /\ ~call.outcome.threw
    /\ BeginsWithSlash(call.outcome.value) <=> BeginsWithSlash(call.route.path.s)

\* a is b with some of its elements left out
RECURSIVE IsSubsequence(_, _)
IsSubsequence(a, b) ==
  IF a = <<>> THEN TRUE
  ELSE IF b = <<>> THEN FALSE
  ELSE IF Head(a) = Head(b) THEN IsSubsequence(Tail(a), Tail(b))
  ELSE IsSubsequence(a, Tail(b))

WithoutEmpty(list) == SelectSeq(list, LAMBDA g : g # <<>>)

\* C26 as stated: generatePath with a mapping alters only the segments of
\* node.path that begin with ":"; every other segment, whatever characters
\* it contains, appears verbatim and in the same order in the result.
C26_OnlyLeadingColonSegmentsChange ==
  (call.op = "generatePath" /\ HasStringPath(call.route) /\ call.params \in Mappings) =>
    /\ ~call.outcome.threw
    /\ IsSubsequence(
         SelectSeq(Split(call.route.path.s), LAMBDA g : g # <<>> /\ g[1] # ":"),
         Split(call.outcome.value))

\* C26 amended: generatePath with a mapping alters only the segments of
\* node.path that contain a ":" (a token starts at a ":" wherever it stands
\* in a segment); every other non-empty segment appears verbatim and in the
\* same order in the result, between what the altered segments became.
C26_ColonFreeSegmentsAreKept ==
  (call.op = "generatePath" /\ HasStringPath(call.route) /\ call.params \in Mappings) =>
    /\ ~call.outcome.threw
    /\ IsSubsequence(
         SelectSeq(Split(call.route.path.s), LAMBDA g : g # <<>> /\ ":" \notin Chars(g)),
         Split(call.outcome.value))
    /\ WithoutEmpty(Split(call.outcome.value)) =
         WithoutEmpty([i \in 1..Len(Split(call.route.path.s)) |->
           IF ":" \notin Chars(Split(call.route.path.s)[i])
             THEN Split(call.route.path.s)[i]
             ELSE ReplaceParams(Split(call.route.path.s)[i], call.params)])

\* "u/a:id" with a value for id: the literal segment is kept and the token
\* inside the second segment is replaced
C26_Witness ==
  /\ GeneratedFrom(RouteObject(Str(<<"u", "/", "a", ":", "i", "d">>)),
                   ParamsObject(nId :> Str(vSpaceSlash)))
  /\ call.outcome = Returned(<<"u", "/", "a">> \o encodeURIComponent(vSpaceSlash))

\* a ":" of s is followed by a character a parameter name can begin with
HasToken(s) ==
  \E i \in 1..(Len(s) - 1) : s[i] = ":" /\ s[i + 1] \notin {"/", "?"}

\* C27: generatePath applied again to its own result, with the same
\* mapping, returns that result: the string generated with a mapping has
\* no parameter token and no slash run left for a second pass to change.
C27_GeneratePathIsIdempotent ==
  (call.op = "generatePath" /\ ~call.outcome.threw) =>
    /\ generatePath(RouteObject(Str(call.outcome.value)), call.params) = call.outcome
    /\ call.params \in Mappings =>
         /\ ~HasToken(call.outcome.value)
         /\ ~HasSlashRun(call.outcome.value)

\* ":id?b" with the value ":" for id: the value is inserted as "%3A" and
\* forms no token with the "b" behind it
C27_Witness ==
  /\ GeneratedFrom(RouteObject(Str(<<":", "i", "d", "?", "b">>)),
                   ParamsObject(nId :> Str(<<":">>)))
  /\ call.outcome = Returned(<<"%", "3", "A", "b">>)
  /\ generatePath(RouteObject(Str(call.outcome.value)), call.params) = call.outcome

(***************************************************************************)
(* A relative view next to the built tree.                                 *)
(***************************************************************************)
\* C28: a relative view is the built subtree without the prefix of the
\* ancestors: for X with parent Q and every Y of X's subtree, Q.path, "/"
\* and the path of Y in X.relative(false) make up the path of Y in the built
\* tree; and for a top-level X, X.relative() without an argument has at
\* every position the path and the sectionPath of the built subtree at X.
C28_ViewIsSubtreeWithoutPrefix ==
  /\ (call.op = "relative" /\ call.arg = Bool(FALSE) /\ Len(call.at) >= 2) =>
       \A q \in DOMAIN call.result :
         routes[ParentOf(call.at)].path \o Slash \o call.result[q].path
           = routes[call.at \o q].path
  /\ (call.op = "relative" /\ call.arg = Undefined /\ Len(call.at) = 1) =>
       \A q \in DOMAIN call.result :
         /\ call.result[q].path = routes[call.at \o q].path
         /\ call.result[q].sectionPath = routes[call.at \o q].sectionPath

\* relative(false) on a node below the top level of a tree built with the
\* leading slash: the view of its child lacks "/user/"
C28_Witness ==
  /\ call.op = "relative"
  /\ call.arg = Bool(FALSE)
  /\ call.at = <<"home", "byId">>
  /\ AmbientLeadingSlash
  /\ routes[<<"home">>].path = Slash \o tUser
  /\ \E q \in DOMAIN call.result :
       /\ q # <<>>
       /\ call.result[q].path = tId \o Slash \o tUser
       /\ routes[call.at \o q].path = Slash \o tUser \o Slash \o tId \o Slash \o tUser

\* C29: what X.relative() returns is fixed by the definition as it was when
\* createRoutePaths ran: after later changes to the definition object (a
\* path edited, a sub-route added or removed) relative() still returns a
\* tree whose sectionPath values and child keys are, at every position,
\* those of the tree that was built.
C29_ViewFollowsBuiltTree ==
  call.op = "relative" =>
    \A q \in DOMAIN call.result :
      /\ call.at \o q \in DOMAIN routes
      /\ call.result[q].sectionPath = routes[call.at \o q].sectionPath
      /\ ChildKeys(call.result, q) = ChildKeys(routes, call.at \o q)

\* C30: the duplicate-shape check analyses the paths the builder produces:
\* for a definition without parameter segments the one full path the check
\* derives for a node (the Join of the templates from the root behind "/")
\* is the path createRoutePaths gives the node under the default options.
C30_CheckedPathIsBuiltPath ==
  (/\ call.op = "defineRoutes"
   /\ built
   /\ options = Undefined
   /\ \A pos \in DOMAIN routesObj : ":" \notin Chars(routesObj[pos].path)) =>
    \A pos \in DOMAIN routesObj : call.paths[pos] = {routes[pos].path}

====
